---- MODULE Spec2Model ----
(***************************************************************************)
(* The BART schedule terminal client (Bubble Tea model/Update/View) as a   *)
(* state machine.  A Go string is a sequence of byte values, so that       *)
(* strings.ToUpper, strings.EqualFold, strconv.Atoi, sort.Strings,         *)
(* strings.Split and fmt.Sprintf are computed as the code computes them.   *)
(***************************************************************************)
EXTENDS Integers, Sequences, FiniteSets, TLC

(***************************************************************************)
(* Bounds of the model.                                                    *)
(***************************************************************************)
\* the longest station list the stations API returns
MaxStations == 3
\* the most fetchStations commands in flight at once
MaxInFlight == 2

(***************************************************************************)
(* String literals of the source, as byte sequences.                       *)
(***************************************************************************)
\* "\nLoading Bart stations..."
LoadingMessage == <<10, 76, 111, 97, 100, 105, 110, 103, 32, 66, 97, 114, 116, 32, 115, 116, 97, 116, 105, 111, 110, 115, 46, 46, 46>>
\* "\nRefreshing stations..."
RefreshingMessage == <<10, 82, 101, 102, 114, 101, 115, 104, 105, 110, 103, 32, 115, 116, 97, 116, 105, 111, 110, 115, 46, 46, 46>>
\* "\nLive Tracking\n============="
LiveTrackingMessage == <<10, 76, 105, 118, 101, 32, 84, 114, 97, 99, 107, 105, 110, 103, 10, 61, 61, 61, 61, 61, 61, 61, 61, 61, 61, 61, 61, 61>>
\* "Error loading stations: "
ErrorLoadingPrefix == <<69, 114, 114, 111, 114, 32, 108, 111, 97, 100, 105, 110, 103, 32, 115, 116, 97, 116, 105, 111, 110, 115, 58, 32>>
\* "Error fetching departures: "
ErrorFetchingPrefix == <<69, 114, 114, 111, 114, 32, 102, 101, 116, 99, 104, 105, 110, 103, 32, 100, 101, 112, 97, 114, 116, 117, 114, 101, 115, 58, 32>>
\* "Error fetching departures for "
ErrorFetchingForPrefix == <<69, 114, 114, 111, 114, 32, 102, 101, 116, 99, 104, 105, 110, 103, 32, 100, 101, 112, 97, 114, 116, 117, 114, 101, 115, 32, 102, 111, 114, 32>>
\* "Error refreshing departures for "
ErrorRefreshingForPrefix == <<69, 114, 114, 111, 114, 32, 114, 101, 102, 114, 101, 115, 104, 105, 110, 103, 32, 100, 101, 112, 97, 114, 116, 117, 114, 101, 115, 32, 102, 111, 114, 32>>
\* ": "
ColonSpace == <<58, 32>>
\* " Departures\n\n"
DeparturesSuffix == <<32, 68, 101, 112, 97, 114, 116, 117, 114, 101, 115, 10, 10>>
\* "\n"
NL == <<10>>
\* ":\n"
ColonNL == <<58, 10>>
\* " "
SP == <<32>>
\* " | Platform "
PlatformSep == <<32, 124, 32, 80, 108, 97, 116, 102, 111, 114, 109, 32>>
\* " min | Platform "
MinPlatformSep == <<32, 109, 105, 110, 32, 124, 32, 80, 108, 97, 116, 102, 111, 114, 109, 32>>
\* "Leaving"
Leaving == <<76, 101, 97, 118, 105, 110, 103>>

\* "\n\nPress 'q' to quit."
QuitHint == <<10, 10, 80, 114, 101, 115, 115, 32, 39, 113, 39, 32, 116, 111, 32, 113, 117, 105, 116, 46>>
\* "\nBART Stations:\n\n"
StationsHeader == <<10, 66, 65, 82, 84, 32, 83, 116, 97, 116, 105, 111, 110, 115, 58, 10, 10>>
\* "\nDepartures:\n\n"
DeparturesHeader == <<10, 68, 101, 112, 97, 114, 116, 117, 114, 101, 115, 58, 10, 10>>
\* "Press Enter to see departures"
EnterHint == <<80, 114, 101, 115, 115, 32, 69, 110, 116, 101, 114, 32, 116, 111, 32, 115, 101, 101, 32, 100, 101, 112, 97, 114, 116, 117, 114, 101, 115>>
\* "\nPress 'q' to quit. Press 'r' to refresh"
RefreshHint == <<10, 80, 114, 101, 115, 115, 32, 39, 113, 39, 32, 116, 111, 32, 113, 117, 105, 116, 46, 32, 80, 114, 101, 115, 115, 32, 39, 114, 39, 32, 116, 111, 32, 114, 101, 102, 114, 101, 115, 104>>
\* ">"
CursorMark == <<62>>
\* ", ("
CommaParen == <<44, 32, 40>>
\* ")\n"
ParenNL == <<41, 10>>
\* the width of the left column in "%-70s  %s\n"
PadWidth == 70

(***************************************************************************)
(* Library functions the code calls.                                       *)
(***************************************************************************)
IsLower(c) == c >= 97 /\ c <= 122

UpperByte(c) == IF IsLower(c) THEN c - 32 ELSE c

\* strings.ToUpper on ASCII text
ToUpper(s) == [i \in 1..Len(s) |-> UpperByte(s[i])]

\* strings.EqualFold on ASCII text: equal under simple case folding
EqualFold(s, t) ==
    /\ Len(s) = Len(t)
    /\ \A i \in 1..Len(s) : UpperByte(s[i]) = UpperByte(t[i])

IsDigit(c) == c >= 48 /\ c <= 57

RECURSIVE DigitsValue(_, _)
\* the value of the decimal digits s, continuing from acc
DigitsValue(s, acc) ==
    IF s = <<>> THEN acc
    ELSE DigitsValue(Tail(s), 10 * acc + (Head(s) - 48))

\* strconv.Atoi: an optional sign, then one or more decimal digits
Atoi(s) ==
    LET signed == s # <<>> /\ Head(s) \in {43, 45}
        digits == IF signed THEN Tail(s) ELSE s
        ok     == digits # <<>> /\ \A i \in 1..Len(digits) : IsDigit(digits[i])
        mag    == IF ok THEN DigitsValue(digits, 0) ELSE 0
    IN  [ok  |-> ok,
         val |-> IF signed /\ Head(s) = 45 THEN 0 - mag ELSE mag]

RECURSIVE LessStr(_, _)
\* Go's < on strings: bytewise lexicographic order
LessStr(s, t) ==
    IF t = <<>> THEN FALSE
    ELSE IF s = <<>> THEN TRUE
    ELSE IF Head(s) # Head(t) THEN Head(s) < Head(t)
    ELSE LessStr(Tail(s), Tail(t))

RECURSIVE SortStrings(_)
\* sort.Strings applied to the keys collected from a map (all distinct)
SortStrings(S) ==
    IF S = {} THEN <<>>
    ELSE LET least == CHOOSE x \in S : \A y \in S \ {x} : LessStr(x, y)
         IN  <<least>> \o SortStrings(S \ {least})

RECURSIVE Split(_)
\* strings.Split(s, "\n"): the pieces of s between its newlines
Split(s) ==
    LET at == { i \in 1..Len(s) : s[i] = 10 }
    IN  IF at = {} THEN <<s>>
        ELSE LET i == CHOOSE k \in at : \A j \in at : k <= j
             IN  <<SubSeq(s, 1, i - 1)>> \o Split(SubSeq(s, i + 1, Len(s)))

\* fmt.Sprintf("%-70s", s): s padded on the right with spaces to PadWidth
PadRight(s) ==
    IF Len(s) >= PadWidth THEN s
    ELSE s \o [i \in 1..(PadWidth - Len(s)) |-> 32]

(***************************************************************************)
(* Go values: a nil or non-nil slice, a nil or non-nil error.              *)
(***************************************************************************)
\* a nil []station
NilSlice == [isNil |-> TRUE, elems |-> <<>>]

\* a non-nil []station holding elems (possibly none)
Slice(elems) == [isNil |-> FALSE, elems |-> elems]

\* len(s)
len(s) == Len(s.elems)

\* a nil error
NoError == <<>>

\* a non-nil error whose Error() text is text
ErrorOf(text) == <<text>>

(***************************************************************************)
(* What the network can answer, within the bounds.                         *)
(***************************************************************************)
\* stations the stations API knows: "Pa"/"Ab", "Qb"/"B", "Rc"/"cD", "Sd"/"E"
StationPool ==
    << [Name |-> <<80, 97>>,  Abbr |-> <<65, 98>>, City |-> <<83, 70>>],
       [Name |-> <<81, 98>>,  Abbr |-> <<66>>,     City |-> <<83, 70>>],
       [Name |-> <<82, 99>>,  Abbr |-> <<99, 68>>, City |-> <<79>>],
       [Name |-> <<83, 100>>, Abbr |-> <<69>>,     City |-> <<79>>] >>

PoolSize == IF MaxStations < Len(StationPool) THEN MaxStations ELSE Len(StationPool)

\* the decoded data.Root.Stations.Station: absent (nil), empty, the first n
\* stations of the pool, or the pool without its first station
StationLists ==
    {NilSlice, Slice(SubSeq(StationPool, 2, PoolSize))} \cup
    { Slice(SubSeq(StationPool, 1, n)) : n \in 0..PoolSize }

\* the text of the error a station fetch can fail with: "E1"
StationErrors == { <<69, 49>> }

\* the text of the error a departure fetch can fail with: "E2"
DepartureErrors == { <<69, 50>> }

\* os.Args[1:]: nothing, "ab" (station "Ab" in another case), "zz" (no station)
ArgsSet == { <<>>, << <<97, 98>> >>, << <<122, 122>> >> }

\* the credential BART_API_KEY: "K"
ApiKeys == { <<75>> }

\* decoded ETD bodies (data.Root.Station)
EtdBody1 ==
    << [ETD |-> << [Destination |-> <<66>>,
                    Estimate |-> << [Minutes |-> <<53>>, Platform |-> <<50>>],
                                    [Minutes |-> Leaving, Platform |-> <<49>>] >>],
                   [Destination |-> <<65>>,
                    Estimate |-> << [Minutes |-> <<50, 50>>, Platform |-> <<49>>] >>] >>] >>

EtdBody2 ==
    << [ETD |-> << [Destination |-> <<67>>,
                    Estimate |-> << [Minutes |-> <<49, 48>>, Platform |-> <<49>>] >>],
                   [Destination |-> <<97>>,
                    Estimate |-> <<>>] >>],
       [ETD |-> << [Destination |-> <<67>>,
                    Estimate |-> << [Minutes |-> <<120>>, Platform |-> <<50>>],
                                    [Minutes |-> <<45, 49>>, Platform |-> <<49>>] >>] >>] >>

EtdBodies == { EtdBody1, EtdBody2 }

\* what one HTTP round trip of getDepartures yields: an error or a decoded body
FailedReply(e) == [err |-> ErrorOf(e), body |-> <<>>]

DecodedReply(b) == [err |-> NoError, body |-> b]

\* the reply of a step that performs no round trip
NoReply == [err |-> NoError, body |-> <<>>]

(***************************************************************************)
(* The program.                                                            *)
(***************************************************************************)
\* initialModel as it would be if the startup arguments were not stored
initialModelWithoutArgs(api_key, args) ==
    [message      |-> LoadingMessage,
     stations     |-> NilSlice,
     err          |-> NoError,
     api_key      |-> api_key,
     cursor       |-> 0,
     info         |-> <<>>,
     args         |-> <<>>,
     selectedName |-> <<>>]

\* the model a fresh program starts from
initialModel(api_key, args) ==
    [message      |-> LoadingMessage,
     stations     |-> NilSlice,
     err          |-> NoError,
     api_key      |-> api_key,
     cursor       |-> 0,
     info         |-> <<>>,
     args         |-> args,
     selectedName |-> <<>>]

\* the commands model.Init batches: the window title, the first station fetch, the first tick
InitCmd == <<"setWindowTitle", "fetchStations", "tick">>

RECURSIVE AllEtd(_)
\* the etd entries of every station of a decoded body, in document order
AllEtd(body) ==
    IF body = <<>> THEN <<>> ELSE Head(body).ETD \o AllEtd(Tail(body))

RECURSIVE EstimatesFor(_, _)
\* departures[dest] after the loop: the estimates appended entry by entry
EstimatesFor(etds, dest) ==
    IF etds = <<>> THEN <<>>
    ELSE (IF Head(etds).Destination = dest THEN Head(etds).Estimate ELSE <<>>)
         \o EstimatesFor(Tail(etds), dest)

\* getDepartures: (nil, err) when the round trip fails, else the map
\* destination -> departures built from the decoded body
getDepartures(apiKey, stationAbbr, reply) ==
    IF reply.err # NoError
    THEN [deps |-> <<>>, err |-> reply.err]
    ELSE CHOOSE result \in
           { [deps |-> [d \in { etds[i].Destination :
                                  i \in { k \in 1..Len(etds) : etds[k].Estimate # <<>> } }
                          |-> EstimatesFor(etds, d)],
              err  |-> NoError] : etds \in {AllEtd(reply.body)} } : TRUE

\* the line of one departure, as formatted on enter
enterLine(dep) ==
    IF dep.Minutes = Leaving
    THEN SP \o dep.Minutes \o PlatformSep \o dep.Platform \o NL
    ELSE IF Atoi(dep.Minutes).ok /\ Atoi(dep.Minutes).val < 10
    THEN SP \o SP \o SP \o dep.Minutes \o MinPlatformSep \o dep.Platform \o NL
    ELSE SP \o SP \o dep.Minutes \o MinPlatformSep \o dep.Platform \o NL

\* the line of one departure, as formatted when the startup station is found
lockLine(dep) ==
    IF dep.Minutes = Leaving
    THEN SP \o dep.Minutes \o PlatformSep \o dep.Platform \o NL
    ELSE IF Atoi(dep.Minutes).ok /\ Atoi(dep.Minutes).val < 10
    THEN SP \o SP \o SP \o dep.Minutes \o MinPlatformSep \o dep.Platform \o NL
    ELSE SP \o SP \o dep.Minutes \o MinPlatformSep \o dep.Platform \o NL

\* the line of one departure, as formatted on a tick
tickLine(dep) ==
    IF dep.Minutes = Leaving
    THEN SP \o dep.Minutes \o PlatformSep \o dep.Platform \o NL
    ELSE IF Atoi(dep.Minutes).ok /\ Atoi(dep.Minutes).val < 10
    THEN SP \o SP \o SP \o dep.Minutes \o MinPlatformSep \o dep.Platform \o NL
    ELSE SP \o SP \o dep.Minutes \o MinPlatformSep \o dep.Platform \o NL

\* the line of one departure at a formatting site of Update
siteLine(site, dep) ==
    CASE site = "enter" -> enterLine(dep)
      [] site = "lock"  -> lockLine(dep)
      [] site = "tick"  -> tickLine(dep)

RECURSIVE depLinesNewestFirst(_, _)
\* depLines as it would be if the departures of a destination were reversed
depLinesNewestFirst(depList, site) ==
    IF depList = <<>> THEN <<>>
    ELSE depLinesNewestFirst(Tail(depList), site) \o siteLine(site, Head(depList))

RECURSIVE depLines(_, _)
\* the inner loop: one line per departure of depList, in its order
depLines(depList, site) ==
    IF depList = <<>> THEN <<>>
    ELSE siteLine(site, Head(depList)) \o depLines(Tail(depList), site)

RECURSIVE destBlocks(_, _, _)
\* the outer loop over the sorted keys: "<dest>:\n", its lines, "\n"
destBlocks(keys, deps, site) ==
    IF keys = <<>> THEN <<>>
    ELSE Head(keys) \o ColonNL \o depLines(deps[Head(keys)], site) \o NL
         \o destBlocks(Tail(keys), deps, site)

\* formatInfo as it would be with the keys in descending order
formatInfoDescending(header, deps, site) ==
    CHOOSE infoStr \in
      { header \o destBlocks([i \in 1..Len(keys) |-> keys[Len(keys) + 1 - i]], deps, site) :
          keys \in {SortStrings(DOMAIN deps)} } : TRUE

\* infoStr: the header, then the blocks of the destinations in sort.Strings order
formatInfo(header, deps, site) ==
    CHOOSE infoStr \in
      { header \o destBlocks(keys, deps, site) : keys \in {SortStrings(DOMAIN deps)} } : TRUE

\* what one call of Update yields: the new model, the returned command, the
\* getDepartures calls it made, and whether it panicked
Result(m, cmd, fetched, panicked) ==
    [m |-> m, cmd |-> cmd, fetched |-> fetched, panicked |-> panicked]

\* case "up", "k"
updateUp(m) ==
    Result(IF m.cursor > 0 THEN [m EXCEPT !.cursor = m.cursor - 1] ELSE m,
           <<>>, <<>>, FALSE)

\* updateDown as it would be with the bound test off by one
updateDownPastEnd(m) ==
    Result(IF m.cursor < len(m.stations)
           THEN [m EXCEPT !.cursor = m.cursor + 1] ELSE m,
           <<>>, <<>>, FALSE)

\* case "down", "j"
updateDown(m) ==
    Result(IF m.cursor < len(m.stations) - 1
           THEN [m EXCEPT !.cursor = m.cursor + 1] ELSE m,
           <<>>, <<>>, FALSE)

\* updateRefresh as it would be without the line m.info = ""
updateRefreshKeepInfo(m) ==
    Result([m EXCEPT !.message = RefreshingMessage,
                     !.cursor = 0,
                     !.stations = NilSlice],
           <<"fetchStations">>, <<>>, FALSE)

\* case "r", "R"
updateRefresh(m) ==
    Result([m EXCEPT !.message = RefreshingMessage,
                     !.cursor = 0,
                     !.stations = NilSlice,
                     !.info = <<>>],
           <<"fetchStations">>, <<>>, FALSE)

\* enterFetched as it would be if a new board were merged into the old one
enterFetchedMerging(m, selected, reply, got) ==
    IF got.err # NoError
    THEN Result([m EXCEPT !.info = ErrorFetchingPrefix \o got.err[1]],
                <<>>, <<[abbr |-> selected.Abbr, reply |-> reply]>>, FALSE)
    ELSE Result([m EXCEPT !.info = formatInfo(selected.Name \o NL \o NL, got.deps, "enter")
                                   \o m.info],
                <<>>, <<[abbr |-> selected.Abbr, reply |-> reply]>>, FALSE)

\* enterFetched as it would be if a failure were appended to the board
enterFetchedAppend(m, selected, reply, got) ==
    IF got.err # NoError
    THEN Result([m EXCEPT !.info = m.info \o ErrorFetchingPrefix \o got.err[1]],
                <<>>, <<[abbr |-> selected.Abbr, reply |-> reply]>>, FALSE)
    ELSE Result([m EXCEPT !.info = formatInfo(selected.Name \o NL \o NL, got.deps, "enter")],
                <<>>, <<[abbr |-> selected.Abbr, reply |-> reply]>>, FALSE)

\* the enter branch once getDepartures has returned got for station selected
enterFetched(m, selected, reply, got) ==
    IF got.err # NoError
    THEN Result([m EXCEPT !.info = ErrorFetchingPrefix \o got.err[1]],
                <<>>, <<[abbr |-> selected.Abbr, reply |-> reply]>>, FALSE)
    ELSE Result([m EXCEPT !.info = formatInfo(selected.Name \o NL \o NL, got.deps, "enter")],
                <<>>, <<[abbr |-> selected.Abbr, reply |-> reply]>>, FALSE)

\* updateEnter as it would be if enter blanked the board of an empty list
updateEnterBlanking(m, reply) ==
    IF len(m.stations) > 0
    THEN IF m.cursor < 0 \/ m.cursor >= len(m.stations)
         THEN Result(m, <<>>, <<>>, TRUE)
         ELSE CHOOSE r \in
                { enterFetched(m, selected, reply, got) :
                    selected \in {m.stations.elems[m.cursor + 1]},
                    got \in {getDepartures(m.api_key,
                                           m.stations.elems[m.cursor + 1].Abbr, reply)} } : TRUE
    ELSE Result([m EXCEPT !.info = <<>>], <<>>, <<>>, FALSE)

\* updateEnter as it would be if a failed fetch were also stored in m.err
updateEnterFatal(m, reply) ==
    IF len(m.stations) > 0
    THEN IF m.cursor < 0 \/ m.cursor >= len(m.stations)
         THEN Result(m, <<>>, <<>>, TRUE)
         ELSE CHOOSE r \in
                { enterFetched([m EXCEPT !.err = got.err], selected, reply, got) :
                    selected \in {m.stations.elems[m.cursor + 1]},
                    got \in {getDepartures(m.api_key,
                                           m.stations.elems[m.cursor + 1].Abbr, reply)} } : TRUE
    ELSE Result(m, <<>>, <<>>, FALSE)

\* case "enter"; m.stations[m.cursor] panics when the cursor is out of range
updateEnter(m, reply) ==
    IF len(m.stations) > 0
    THEN IF m.cursor < 0 \/ m.cursor >= len(m.stations)
         THEN Result(m, <<>>, <<>>, TRUE)
         ELSE CHOOSE r \in
                { enterFetched(m, selected, reply, got) :
                    selected \in {m.stations.elems[m.cursor + 1]},
                    got \in {getDepartures(m.api_key,
                                           m.stations.elems[m.cursor + 1].Abbr, reply)} } : TRUE
    ELSE Result(m, <<>>, <<>>, FALSE)

\* case tea.KeyMsg
updateKey(m, key, reply) ==
    CASE key \in {"ctrl+c", "q", "Q"} -> Result(m, <<"quit">>, <<>>, FALSE)
      [] key \in {"up", "k"}          -> updateUp(m)
      [] key \in {"down", "j"}        -> updateDown(m)
      [] key \in {"r", "R"}           -> updateRefresh(m)
      [] key = "enter"                -> updateEnter(m, reply)
      [] OTHER                        -> Result(m, <<>>, <<>>, FALSE)

\* firstMatch as it would be with == in place of strings.EqualFold
firstMatchExact(list, stationAbbr) ==
    LET hits == { i \in 1..Len(list) : list[i].Abbr = stationAbbr }
    IN  IF hits = {} THEN 0 ELSE CHOOSE i \in hits : \A j \in hits : i <= j

\* the index of the first station of list whose Abbr equals stationAbbr under
\* case folding, 0 when there is none (the for loop and its break)
firstMatch(list, stationAbbr) ==
    LET hits == { i \in 1..Len(list) : EqualFold(list[i].Abbr, stationAbbr) }
    IN  IF hits = {} THEN 0 ELSE CHOOSE i \in hits : \A j \in hits : i <= j

\* the body of the loop for the matching station st, once getDepartures
\* has returned got
stationLocked(m1, st, reply, got) ==
    Result([m1 EXCEPT !.selectedName = st.Name,
                      !.info = IF got.err # NoError
                               THEN ErrorFetchingForPrefix \o st.Abbr
                                    \o ColonSpace \o got.err[1]
                               ELSE formatInfo(st.Name \o DeparturesSuffix,
                                               got.deps, "lock"),
                      !.stations = NilSlice],
           <<>>, <<[abbr |-> st.Abbr, reply |-> reply]>>, FALSE)

\* updateStations as it would be if a list arriving while one is loaded were
\* dropped
updateStationsKeepLoaded(m, list, reply) ==
    IF len(m.stations) > 0
    THEN Result(m, <<>>, <<>>, FALSE)
    ELSE IF Len(m.args) > 0 /\ firstMatch(list.elems, ToUpper(m.args[1])) # 0
    THEN CHOOSE r \in
           { stationLocked([m EXCEPT !.stations = list, !.message = LiveTrackingMessage],
                           st, reply, got) :
               st \in {list.elems[firstMatch(list.elems, ToUpper(m.args[1]))]},
               got \in {getDepartures(m.api_key,
                          list.elems[firstMatch(list.elems, ToUpper(m.args[1]))].Abbr,
                          reply)} } : TRUE
    ELSE Result([m EXCEPT !.stations = list, !.message = LiveTrackingMessage],
                <<>>, <<>>, FALSE)

\* case []station
updateStations(m, list, reply) ==
    IF Len(m.args) > 0 /\ firstMatch(list.elems, ToUpper(m.args[1])) # 0
    THEN CHOOSE r \in
           { stationLocked([m EXCEPT !.stations = list, !.message = LiveTrackingMessage],
                           st, reply, got) :
               st \in {list.elems[firstMatch(list.elems, ToUpper(m.args[1]))]},
               got \in {getDepartures(m.api_key,
                          list.elems[firstMatch(list.elems, ToUpper(m.args[1]))].Abbr,
                          reply)} } : TRUE
    ELSE Result([m EXCEPT !.stations = list, !.message = LiveTrackingMessage],
                <<>>, <<>>, FALSE)

\* tickRefreshed as it would be if a fresh board were appended to the old text
tickRefreshedAppend(m, stationAbbr, reply, got) ==
    Result([m EXCEPT !.info =
               IF got.err # NoError
               THEN ErrorRefreshingForPrefix \o stationAbbr \o ColonSpace \o got.err[1]
               ELSE m.info \o
                    formatInfo((IF m.selectedName # <<>> THEN m.selectedName
                                ELSE stationAbbr) \o DeparturesSuffix,
                               got.deps, "tick")],
           <<"tick">>, <<[abbr |-> stationAbbr, reply |-> reply]>>, FALSE)

\* the locked branch of a tick, once getDepartures has returned got
tickRefreshed(m, stationAbbr, reply, got) ==
    Result([m EXCEPT !.info =
               IF got.err # NoError
               THEN ErrorRefreshingForPrefix \o stationAbbr \o ColonSpace \o got.err[1]
               ELSE formatInfo((IF m.selectedName # <<>> THEN m.selectedName
                                ELSE stationAbbr) \o DeparturesSuffix,
                               got.deps, "tick")],
           <<"tick">>, <<[abbr |-> stationAbbr, reply |-> reply]>>, FALSE)

\* updateTick as it would be with the next tick scheduled inside the if
updateTickRearmWhenLocked(m, reply) ==
    IF Len(m.args) > 0 /\ m.stations.isNil
    THEN CHOOSE r \in
           { tickRefreshed(m, stationAbbr, reply, got) :
               stationAbbr \in {ToUpper(m.args[1])},
               got \in {getDepartures(m.api_key, ToUpper(m.args[1]), reply)} } : TRUE
    ELSE Result(m, <<>>, <<>>, FALSE)

\* updateTick as it would be without the test m.stations == nil
updateTickIgnoringPicker(m, reply) ==
    IF Len(m.args) > 0
    THEN CHOOSE r \in
           { tickRefreshed(m, stationAbbr, reply, got) :
               stationAbbr \in {ToUpper(m.args[1])},
               got \in {getDepartures(m.api_key, ToUpper(m.args[1]), reply)} } : TRUE
    ELSE Result(m, <<"tick">>, <<>>, FALSE)

\* case tickMsg
updateTick(m, reply) ==
    IF Len(m.args) > 0 /\ m.stations.isNil
    THEN CHOOSE r \in
           { tickRefreshed(m, stationAbbr, reply, got) :
               stationAbbr \in {ToUpper(m.args[1])},
               got \in {getDepartures(m.api_key, ToUpper(m.args[1]), reply)} } : TRUE
    ELSE Result(m, <<"tick">>, <<>>, FALSE)

\* updateError as it would be if a failure also dropped the loaded stations
updateErrorClearing(m, text) ==
    Result([m EXCEPT !.err = ErrorOf(text),
                     !.message = ErrorLoadingPrefix \o text,
                     !.stations = NilSlice],
           <<>>, <<>>, FALSE)

\* case error
updateError(m, text) ==
    Result([m EXCEPT !.err = ErrorOf(text),
                     !.message = ErrorLoadingPrefix \o text],
           <<>>, <<>>, FALSE)

\* the messages Update is handed
KeyMsg(key) == [type |-> "key", key |-> key, stations |-> NilSlice, err |-> <<>>]

StationsMsg(list) == [type |-> "stations", key |-> "", stations |-> list, err |-> <<>>]

ErrorMsg(text) == [type |-> "error", key |-> "", stations |-> NilSlice, err |-> text]

TickMsg == [type |-> "tick", key |-> "", stations |-> NilSlice, err |-> <<>>]

NoMsg == [type |-> "none", key |-> "", stations |-> NilSlice, err |-> <<>>]

\* model.Update: the dispatch on the type of the message
Update(m, message, reply) ==
    CASE message.type = "key"      -> updateKey(m, message.key, reply)
      [] message.type = "stations" -> updateStations(m, message.stations, reply)
      [] message.type = "tick"     -> updateTick(m, reply)
      [] message.type = "error"    -> updateError(m, message.err)
      [] OTHER                     -> Result(m, <<>>, <<>>, FALSE)

RECURSIVE stationRows(_, _, _)
\* the rows of the left column: the cursor mark or a space, then "Name, (Abbr)"
stationRows(list, i, cursor) ==
    IF i > Len(list) THEN <<>>
    ELSE (IF i - 1 = cursor THEN CursorMark ELSE SP) \o SP \o list[i].Name
         \o CommaParen \o list[i].Abbr \o ParenNL
         \o stationRows(list, i + 1, cursor)

RECURSIVE zipLines(_, _, _, _)
\* the loop over i < maxLines: the left line padded, two spaces, the right line
zipLines(leftLines, rightLines, i, maxLines) ==
    IF i > maxLines THEN <<>>
    ELSE PadRight(IF i <= Len(leftLines) THEN leftLines[i] ELSE <<>>)
         \o SP \o SP
         \o (IF i <= Len(rightLines) THEN rightLines[i] ELSE <<>>) \o NL
         \o zipLines(leftLines, rightLines, i + 1, maxLines)

\* model.View: the frame rendered from a model
View(mm) ==
    IF mm.err # NoError
    THEN mm.message \o QuitHint
    ELSE IF len(mm.stations) > 0
    THEN LET stationList == StationsHeader \o stationRows(mm.stations.elems, 1, mm.cursor)
             departures  == DeparturesHeader \o
                            (IF mm.info # <<>> THEN mm.info ELSE EnterHint)
             leftLines   == Split(stationList)
             rightLines  == Split(departures)
             maxLines    == IF Len(rightLines) > Len(leftLines)
                            THEN Len(rightLines) ELSE Len(leftLines)
         IN  zipLines(leftLines, rightLines, 1, maxLines) \o RefreshHint
    ELSE mm.message \o NL \o NL \o mm.info \o NL \o RefreshHint

(***************************************************************************)
(* The state: the model value the Bubble Tea runtime holds, the commands   *)
(* in flight, and a record of the last two calls of Update.                *)
(***************************************************************************)
VARIABLES
    m,             \* the model the runtime holds
    pendingFetch,  \* fetchStations commands in flight
    timers,        \* tea.Tick timers armed
    status,        \* "running", "quit" (tea.Quit was returned) or "panic"
    msg,           \* the message of the last call of Update
    cmd,           \* the command that call returned
    fetched,       \* the getDepartures calls that call made
    fetchedBefore  \* the getDepartures calls the call of Update before it made

vars == <<m, pendingFetch, timers, status, msg, cmd, fetched, fetchedBefore>>

\* the strings msg.String() of the keys the user presses
Keys == {"ctrl+c", "q", "Q", "up", "k", "w", "W", "down", "j", "s", "S",
         "r", "R", "enter", "x"}

\* how often command c occurs in the batch cmds
Count(cmds, c) == Cardinality({ i \in 1..Len(cmds) : cmds[i] = c })

\* the program after tea.NewProgram(initialModel(api_key, args)) and model.Init
Init ==
    /\ \E k \in ApiKeys, a \in ArgsSet : m = initialModel(k, a)
    /\ pendingFetch = Count(InitCmd, "fetchStations")
    /\ timers = Count(InitCmd, "tick")
    /\ status = "running"
    /\ msg = NoMsg
    /\ cmd = InitCmd
    /\ fetched = <<>>
    /\ fetchedBefore = <<>>

\* the runtime hands message to Update, installs the model it returns and
\* starts the command it returns; pf and tm are what remains in flight
Deliver(message, reply, pf, tm) ==
    /\ msg' = message
    /\ fetchedBefore' = fetched
    /\ \E r \in {Update(m, message, reply)} :
        /\ m' = r.m
        /\ cmd' = r.cmd
        /\ fetched' = r.fetched
        /\ status' = IF r.panicked THEN "panic"
                     ELSE IF Count(r.cmd, "quit") > 0 THEN "quit"
                     ELSE "running"
        /\ pendingFetch' = pf + Count(r.cmd, "fetchStations")
        /\ timers' = tm + Count(r.cmd, "tick")

\* Deliver for a message whose handling may call getDepartures: the round
\* trip fails, or it yields a decoded body
DeliverFetching(message, pf, tm) ==
    \/ \E e \in DepartureErrors : Deliver(message, FailedReply(e), pf, tm)
    \/ \E b \in EtdBodies : Deliver(message, DecodedReply(b), pf, tm)

\* the user presses a key (a refresh only while the bound on fetches allows it)
KeyPressed ==
    /\ status = "running"
    /\ \E key \in Keys :
         /\ key \in {"r", "R"} => pendingFetch < MaxInFlight
         /\ IF key = "enter"
            THEN DeliverFetching(KeyMsg(key), pendingFetch, timers)
            ELSE Deliver(KeyMsg(key), NoReply, pendingFetch, timers)

\* a fetchStations command completes with a station list
StationsFetched ==
    /\ status = "running"
    /\ pendingFetch > 0
    /\ \E list \in StationLists :
         IF Len(m.args) > 0
         THEN DeliverFetching(StationsMsg(list), pendingFetch - 1, timers)
         ELSE Deliver(StationsMsg(list), NoReply, pendingFetch - 1, timers)

\* a fetchStations command completes with an error
StationsFetchFailed ==
    /\ status = "running"
    /\ pendingFetch > 0
    /\ \E e \in StationErrors :
         Deliver(ErrorMsg(e), NoReply, pendingFetch - 1, timers)

\* an armed timer expires and Update handles its tickMsg
TickElapsed ==
    /\ status = "running"
    /\ timers > 0
    /\ IF Len(m.args) > 0
       THEN DeliverFetching(TickMsg, pendingFetch, timers - 1)
       ELSE Deliver(TickMsg, NoReply, pendingFetch, timers - 1)

Next ==
    \/ KeyPressed
    \/ StationsFetched
    \/ StationsFetchFailed
    \/ TickElapsed

Spec == Init /\ [][Next]_vars

\* a fetchStations command completes, one way or the other
FetchCompleted == StationsFetchFailed \/ StationsFetched

\* the goroutine of every fetchStations command runs and its request ends
FetchLiveSpec == Spec /\ WF_vars(FetchCompleted)

\* the timer goroutine and the event loop always make progress
LiveSpec == Spec /\ WF_vars(TickElapsed)

(***************************************************************************)
(* The end-to-end scenario: one station, one destination, two departures.  *)
(***************************************************************************)
\* the station {"Civic Center", "CIVC", "SF"}
CivicCenter ==
    [Name |-> <<67, 105, 118, 105, 99, 32, 67, 101, 110, 116, 101, 114>>,
     Abbr |-> <<67, 73, 86, 67>>,
     City |-> <<83, 70>>]

\* "Dublin"
Dublin == <<68, 117, 98, 108, 105, 110>>

\* the decoded ETD body: "Dublin" with ("5", "2") and then ("Leaving", "1")
DublinBody ==
    << [ETD |-> << [Destination |-> Dublin,
                    Estimate |-> << [Minutes |-> <<53>>, Platform |-> <<50>>],
                                    [Minutes |-> Leaving, Platform |-> <<49>>] >>] >>] >>

\* the program started without a startup argument
ScenarioInit == Init /\ m.args = <<>>

\* a fetchStations command completes with the one-station list
ScenarioFetched ==
    /\ status = "running"
    /\ pendingFetch > 0
    /\ Deliver(StationsMsg(Slice(<<CivicCenter>>)), NoReply, pendingFetch - 1, timers)

\* the user presses enter and the departure fetch returns the Dublin body
ScenarioEnter ==
    /\ status = "running"
    /\ Deliver(KeyMsg("enter"), DecodedReply(DublinBody), pendingFetch, timers)

ScenarioNext ==
    \/ ScenarioFetched
    \/ ScenarioEnter
    \/ KeyPressed
    \/ StationsFetchFailed
    \/ TickElapsed

ScenarioSpec == ScenarioInit /\ [][ScenarioNext]_vars

(***************************************************************************)
(* Vocabulary of the properties.                                           *)
(***************************************************************************)
\* sub occurs in s
Contains(s, sub) ==
    \E i \in 1..(Len(s) - Len(sub) + 1) : SubSeq(s, i, i + Len(sub) - 1) = sub

\* the frame of mm is the two-column picker
PickerVisible(mm) == mm.err = NoError /\ len(mm.stations) > 0

\* the frame of mm is the error frame
ErrorFrame(mm) == View(mm) = mm.message \o QuitHint

\* the step handled a press of one of keys
Pressed(keys) == msg'.type = "key" /\ msg'.key \in keys

\* the step's call of Update made a getDepartures call that failed
FetchFailed == fetched' # <<>> /\ fetched'[1].reply.err # NoError

\* the startup argument names no station of any list the API returns
NoStationMatches ==
    /\ Len(m.args) > 0
    /\ \A l \in StationLists : \A i \in 1..len(l) :
         ~EqualFold(l.elems[i].Abbr, m.args[1])

\* s begins with prefix
StartsWith(s, prefix) ==
    Len(prefix) <= Len(s) /\ SubSeq(s, 1, Len(prefix)) = prefix

\* the session is locked onto a station: a startup code was given, a fetched
\* station matched it (its name is remembered) and the station list is cleared
Locked(mm) ==
    Len(mm.args) > 0 /\ mm.selectedName # <<>> /\ mm.stations.isNil

\* the step's call of Update made a getDepartures call that succeeded
FetchSucceeded == fetched' # <<>> /\ fetched'[1].reply.err = NoError

\* the startup code equals, ignoring case, the code of a station of list
MatchesStartupCode(list) ==
    /\ Len(m.args) > 0
    /\ \E i \in 1..len(list) : EqualFold(list.elems[i].Abbr, m.args[1])

\* s ends with suffix
EndsWith(s, suffix) ==
    Len(suffix) <= Len(s) /\ SubSeq(s, Len(s) - Len(suffix) + 1, Len(s)) = suffix

\* the destination a header line "<dest>:" names
HeaderName(line) == SubSeq(line, 1, Len(line) - 1)

\* the step is the scenario's: enter in the picker of the one station
\* "Civic Center", cursor 0, with the Dublin body returned
ScenarioStep ==
    /\ m.stations = Slice(<<CivicCenter>>)
    /\ m.cursor = 0
    /\ m.err = NoError
    /\ Pressed({"enter"})
    /\ fetched' # <<>>
    /\ fetched'[1].reply = DecodedReply(DublinBody)

\* lines a, b, c of the frame of mm, in this order, hold the texts x, y, z
InOrder(mm, x, y, z) ==
    \E lines \in {Split(View(mm))} :
      \E a, b, c \in 1..Len(lines) :
        /\ a < b /\ b < c
        /\ Contains(lines[a], x)
        /\ Contains(lines[b], y)
        /\ Contains(lines[c], z)

\* "5 min"
FiveMin == <<53, 32, 109, 105, 110>>

\* the header lines "<dest>:" among lines
HeaderLines(lines) == { i \in 1..Len(lines) : EndsWith(lines[i], <<58>>) }

\* how many lines of lines are the line of a departure
DepartureLineCount(lines) ==
    Cardinality({ i \in 1..Len(lines) : Contains(lines[i], PlatformSep) })

\* how many departures the map deps holds
RECURSIVE DepartureCount(_, _)
DepartureCount(deps, dests) ==
    IF dests = {} THEN 0
    ELSE LET d == CHOOSE x \in dests : TRUE
         IN  Len(deps[d]) + DepartureCount(deps, dests \ {d})

\* the left-column row of station st, without its cursor column
RowOf(st) == SP \o st.Name \o CommaParen \o st.Abbr

(***************************************************************************)
(* Properties.                                                             *)
(***************************************************************************)
\* C1: whenever the station list is non-empty the cursor is a valid index
\* of it, so the enter handler's m.stations[m.cursor] never panics.
C1_CursorInRange ==
    /\ len(m.stations) > 0 => (0 <= m.cursor /\ m.cursor < len(m.stations))
    /\ status # "panic"

\* C2: a StationsFetched event carrying a non-empty list, arriving while
\* lastError is set, clears lastError, and the next frame is no longer the
\* error frame.
C2_StationsClearError ==
    [][ (m.err # NoError /\ msg'.type = "stations" /\ len(msg'.stations) > 0)
          => (m'.err = NoError /\ ~ErrorFrame(m')) ]_vars

\* C3: with a startup code that matches no station, a step that is not an
\* enter keypress keeps an empty board empty and fetches no departures, and
\* a step that is not a failed station fetch sets no error.
C3_NoMatchStaysInPicker ==
    [][ (NoStationMatches /\ m.info = <<>> /\ m.err = NoError /\ ~Pressed({"enter"}))
          => /\ m'.info = <<>>
             /\ fetched' = <<>>
             /\ (msg'.type # "error" => m'.err = NoError) ]_vars

\* C4: when a StationsFetched list holds a station whose code equals the
\* startup code ignoring case, the state right after the event has the
\* picker hidden, the station remembered, exactly one getDepartures call
\* made for that station's own code, and the board filled from its reply.
C4_StartupCodeLocks ==
    [][ \A i \in 1..len(msg'.stations) :
          ( /\ msg'.type = "stations"
            /\ Len(m.args) > 0
            /\ EqualFold(msg'.stations.elems[i].Abbr, m.args[1])
            /\ \A j \in 1..(i - 1) :
                 ~EqualFold(msg'.stations.elems[j].Abbr, m.args[1]) )
          => LET st     == msg'.stations.elems[i]
                 header == st.Name \o DeparturesSuffix
             IN  /\ len(m'.stations) = 0
                 /\ m'.selectedName = st.Name
                 /\ Len(fetched') = 1
                 /\ fetched'[1].abbr = st.Abbr
                 /\ m'.info # <<>>
                 /\ fetched'[1].reply.err = NoError =>
                      /\ SubSeq(m'.info, 1, Len(header)) = header
                      /\ \A e \in 1..Len(AllEtd(fetched'[1].reply.body)) :
                           LET etd == AllEtd(fetched'[1].reply.body)[e]
                           IN  etd.Estimate # <<>> =>
                                 Contains(m'.info, NL \o etd.Destination \o ColonNL)
                 /\ fetched'[1].reply.err # NoError =>
                      Contains(m'.info, fetched'[1].reply.err[1]) ]_vars

\* C4 (witness): a station list matching the startup code "ab" by case
\* folding only has just been handled and its departure fetch succeeded.
C4_Locked ==
    /\ msg.type = "stations"
    /\ Len(m.args) > 0
    /\ \E i \in 1..len(msg.stations) :
         /\ EqualFold(msg.stations.elems[i].Abbr, m.args[1])
         /\ msg.stations.elems[i].Abbr # m.args[1]
         /\ m.selectedName = msg.stations.elems[i].Name
    /\ fetched # <<>>
    /\ fetched[1].reply.err = NoError
    /\ len(m.stations) = 0

\* C5: while the program runs exactly one tick is pending, and under a fair
\* timer a tick is handled again and again until the program ends.
C5_OneTickPending ==
    /\ [](status = "running" => timers = 1)
    /\ []<>(status # "running" \/ msg.type = "tick")

\* C5 (witness): a tick whose departure fetch failed has been handled and
\* the next tick is pending.
C5_TickAfterFailure ==
    /\ msg.type = "tick"
    /\ status = "running"
    /\ timers = 1
    /\ fetched # <<>>
    /\ fetched[1].reply.err # NoError

\* C6: a tick handled when no startup code was given, or while the picker is
\* visible, fetches no departures and leaves the model as it was.
C6_TickIdleUnlessLocked ==
    [][ (msg'.type = "tick" /\ (Len(m.args) = 0 \/ PickerVisible(m)))
          => (fetched' = <<>> /\ m' = m) ]_vars

\* C6 (witness): a tick was handled with a startup code given, the picker
\* visible and a board the user had selected with enter.
C6_TickInPicker ==
    /\ msg.type = "tick"
    /\ Len(m.args) > 0
    /\ PickerVisible(m)
    /\ m.info # <<>>
    /\ fetched = <<>>

\* C7: with n stations and the cursor c in 0..n-1, an up key gives
\* max(c-1, 0) and a down key gives min(c+1, n-1); nothing else changes
\* and no command is returned.
C7_CursorClamped ==
    [][ LET n == len(m.stations)
            c == m.cursor
        IN  (0 <= c /\ c < n) =>
              /\ Pressed({"up", "k"}) =>
                   /\ m' = [m EXCEPT !.cursor = IF c - 1 > 0 THEN c - 1 ELSE 0]
                   /\ cmd' = <<>>
              /\ Pressed({"down", "j"}) =>
                   /\ m' = [m EXCEPT !.cursor = IF c + 1 < n - 1 THEN c + 1 ELSE n - 1]
                   /\ cmd' = <<>> ]_vars

\* C7 (witness): a down key was handled and the cursor is on the last of
\* three stations.
C7_CursorAtBottom ==
    /\ msg.type = "key"
    /\ msg.key = "down"
    /\ len(m.stations) = 3
    /\ m.cursor = 2

\* C8: each of up, k, w (and W) moves the cursor up by one when it is above
\* 0, and each of down, j, s (and S) moves it down by one when it is below
\* len(stations)-1.
C8_AllNavigationKeys ==
    [][ /\ (Pressed({"up", "k", "w", "W"}) /\ m.cursor > 0)
             => m'.cursor = m.cursor - 1
        /\ (Pressed({"down", "j", "s", "S"}) /\ m.cursor < len(m.stations) - 1)
             => m'.cursor = m.cursor + 1 ]_vars

\* C9: a refresh key gives a model with no stations, cursor 0, an empty
\* board and the refreshing banner, and starts exactly one fetchStations.
C9_RefreshResets ==
    [][ Pressed({"r", "R"})
          => /\ len(m'.stations) = 0
             /\ m'.cursor = 0
             /\ m'.info = <<>>
             /\ m'.message = RefreshingMessage
             /\ cmd' = <<"fetchStations">>
             /\ pendingFetch' = pendingFetch + 1 ]_vars

\* C9 (witness): a refresh key was handled while an earlier fetch was still
\* in flight and the error of a failed fetch was set.
C9_Refreshed ==
    /\ msg.type = "key"
    /\ msg.key \in {"r", "R"}
    /\ pendingFetch = 2
    /\ m.err # NoError
    /\ m.message = RefreshingMessage

\* C10: when enter is pressed in the picker and the departure fetch fails,
\* the board becomes the error text of that failure, stations, cursor and
\* lastError are unchanged, and the next frame is the two-column picker
\* holding every station's row and the error text.
C10_EnterFailureIsLocal ==
    [][ (Pressed({"enter"}) /\ PickerVisible(m) /\ FetchFailed)
          => \E after \in {m'} : \E frame \in {View(after)} :
               /\ after.info = ErrorFetchingPrefix \o fetched'[1].reply.err[1]
               /\ after.stations = m.stations
               /\ after.cursor = m.cursor
               /\ after.err = m.err
               /\ PickerVisible(after)
               /\ frame # after.message \o QuitHint
               /\ \A i \in 1..len(m.stations) :
                    Contains(frame, RowOf(m.stations.elems[i]))
               /\ Contains(frame, after.info) ]_vars

\* C10 (witness): enter was pressed on the second station of the picker and
\* its departure fetch failed.
C10_EnterFailed ==
    /\ msg.type = "key"
    /\ msg.key = "enter"
    /\ fetched # <<>>
    /\ fetched[1].reply.err # NoError
    /\ PickerVisible(m)
    /\ m.cursor = 1

\* C11: when enter is handled right after an enter whose fetch succeeded and
\* this fetch fails, the board is exactly the error text of this failure, no
\* line of the earlier board remains in it, and the picker frame shows that
\* text.
C11_LastEnterWins ==
    [][ ( /\ msg.type = "key" /\ msg.key = "enter"
          /\ fetched # <<>> /\ fetched[1].reply.err = NoError
          /\ Pressed({"enter"}) /\ FetchFailed )
          => \E after \in {m'} : \E lines \in {Split(m.info)} :
               /\ after.info = ErrorFetchingPrefix \o fetched'[1].reply.err[1]
               /\ \A i \in 1..Len(lines) :
                    lines[i] # <<>> => ~Contains(after.info, lines[i])
               /\ PickerVisible(after) => Contains(View(after), after.info) ]_vars

\* C11 (witness): enter was handled twice in a row, the first fetch having
\* succeeded and the second failed, and the board is the error text.
C11_FailedAfterSuccess ==
    /\ msg.type = "key"
    /\ msg.key = "enter"
    /\ fetchedBefore # <<>>
    /\ fetchedBefore[1].reply.err = NoError
    /\ fetched # <<>>
    /\ fetched[1].reply.err # NoError
    /\ m.info = ErrorFetchingPrefix \o fetched[1].reply.err[1]
    /\ PickerVisible(m)

\* C12: while locked, a tick whose fetch fails writes the inline error text
\* into the board, leaves lastError as it was and re-arms the timer; a tick
\* whose fetch succeeds while the board holds such an error text replaces it
\* by the freshly formatted board, of which the error text is no part.
C12_TickFailureHeals ==
    [][ (Locked(m) /\ msg'.type = "tick")
          => \E after \in {m'} :
               /\ FetchFailed \/ FetchSucceeded
               /\ after.err = m.err
               /\ timers' = 1
               /\ FetchFailed =>
                    after.info = ErrorRefreshingForPrefix \o ToUpper(m.args[1])
                                 \o ColonSpace \o fetched'[1].reply.err[1]
               /\ (FetchSucceeded /\ StartsWith(m.info, ErrorRefreshingForPrefix)) =>
                    /\ StartsWith(after.info, m.selectedName \o DeparturesSuffix)
                    /\ ~Contains(after.info, ErrorRefreshingForPrefix)
                    /\ ~Contains(after.info, m.info)
                    /\ \A e \in 1..Len(AllEtd(fetched'[1].reply.body)) :
                         LET etd == AllEtd(fetched'[1].reply.body)[e]
                         IN  etd.Estimate # <<>> =>
                               Contains(after.info, NL \o etd.Destination \o ColonNL)
                    /\ after.err = NoError =>
                         View(after) = after.message \o NL \o NL \o after.info
                                       \o NL \o RefreshHint ]_vars

\* C12 (witness): locked onto a station, a tick's fetch for the upper-cased
\* startup code failed and the very next call of Update was a tick whose
\* fetch succeeded and wrote the board.
C12_HealedAfterFailure ==
    /\ msg.type = "tick"
    /\ Locked(m)
    /\ fetchedBefore # <<>>
    /\ fetchedBefore[1].reply.err # NoError
    /\ fetchedBefore[1].abbr = ToUpper(m.args[1])
    /\ fetched # <<>>
    /\ fetched[1].reply.err = NoError
    /\ StartsWith(m.info, m.selectedName \o DeparturesSuffix)
    /\ m.err = NoError

\* C13: a StationsFetchFailed event sets lastError to the failure, sets the
\* status message to a banner containing the failure's text, and leaves the
\* station list, the cursor and the board unchanged.
C13_FetchFailureKeepsStations ==
    [][ msg'.type = "error"
          => /\ m'.err = ErrorOf(msg'.err)
             /\ StartsWith(m'.message, ErrorLoadingPrefix)
             /\ Contains(m'.message, msg'.err)
             /\ m'.stations = m.stations
             /\ m'.cursor = m.cursor
             /\ m'.info = m.info
             /\ cmd' = <<>> ]_vars

\* C13 (witness): a station fetch failed while a station list was loaded,
\* the cursor was off the first row and a board was shown.
C13_FailedWithStationsLoaded ==
    /\ msg.type = "error"
    /\ m.err = ErrorOf(msg.err)
    /\ len(m.stations) > 1
    /\ m.cursor > 0
    /\ m.info # <<>>

\* C14: in every state in which lastError is set, the frame is the error
\* banner with the text of the station-list failure followed by the quit
\* hint, and nothing else (no station row, no departure text).
C14_ErrorFrameShowsError ==
    m.err # NoError
      => \E frame \in {View(m)} :
           /\ Contains(frame, m.err[1])
           /\ frame = ErrorLoadingPrefix \o m.err[1] \o QuitHint

\* C15: after every step in which a station fetch or a departure fetch
\* failed, the frame rendered from the resulting state contains the text of
\* that failure.
C15_NoFailureDropped ==
    [][ \E frame \in {IF msg'.type = "error" \/ FetchFailed THEN View(m') ELSE <<>>} :
          /\ msg'.type = "error" => Contains(frame, msg'.err)
          /\ FetchFailed => Contains(frame, fetched'[1].reply.err[1]) ]_vars

\* C16: in every state in which a startup code has matched a fetched station
\* (its name is remembered) and no error is set, the frame is the
\* single-column banner and departures frame and holds no station row.
C16_TrackingHidesPicker ==
    (m.selectedName # <<>> /\ m.err = NoError)
      => \E frame \in {View(m)} :
           /\ frame = m.message \o NL \o NL \o m.info \o NL \o RefreshHint
           /\ \A i \in 1..len(m.stations) :
                ~Contains(frame, RowOf(m.stations.elems[i]))

\* C17 (as stated): every delivered station list becomes the station list,
\* so that after two deliveries the list is the one delivered last.
C17_DeliveredListIsStored ==
    [][ msg'.type = "stations" => m'.stations = msg'.stations ]_vars

\* C17: a fetch in flight ends only by the delivery of its result, never by
\* a later request; every delivered list is applied at once, the station list
\* becoming that list, or nil when the list locks the session onto the
\* startup station; and while the program runs with fetches in flight, a
\* result is delivered again and again.
C17_LastDeliveredWins ==
    /\ [][ /\ pendingFetch' < pendingFetch =>
                /\ pendingFetch' = pendingFetch - 1
                /\ msg'.type \in {"stations", "error"}
           /\ msg'.type = "stations" =>
                m'.stations = IF MatchesStartupCode(msg'.stations)
                              THEN NilSlice ELSE msg'.stations ]_vars
    /\ []<>(status # "running" \/ pendingFetch = 0
                \/ msg.type \in {"stations", "error"})

\* C17 (witness): both of two fetches in flight at once have been delivered;
\* the list delivered last is the station list and is shorter than the one
\* delivered before it, on which the cursor had been moved down.
C17_ShorterListDeliveredLast ==
    /\ msg.type = "stations"
    /\ pendingFetch = 0
    /\ m.stations = msg.stations
    /\ len(m.stations) > 0
    /\ m.cursor >= len(m.stations)

\* C18: a step that needs departures only dispatches the fetch: the call of
\* Update makes no round trip of its own, returns a command for the fetch and
\* leaves the board as it was, the result being applied by a later event.
C18_FetchIsDispatched ==
    [][ (Pressed({"enter"}) /\ PickerVisible(m) /\ m.cursor < len(m.stations))
        \/ (msg'.type = "tick" /\ Locked(m))
        \/ (msg'.type = "stations" /\ MatchesStartupCode(msg'.stations))
          => /\ fetched' = <<>>
             /\ m'.info = m.info
             /\ cmd' \notin {<<>>, <<"tick">>} ]_vars

\* C19: Update returns the quit command exactly when the message is a key
\* q, Q or ctrl+c; that step leaves the model unchanged; and no other step
\* ends the event loop.
C19_OnlyQuitKeysEnd ==
    [][ /\ Count(cmd', "quit") > 0 <=> Pressed({"q", "Q", "ctrl+c"})
        /\ Pressed({"q", "Q", "ctrl+c"}) => (m' = m /\ cmd' = <<"quit">>)
        /\ status' # "running" => Pressed({"q", "Q", "ctrl+c"}) ]_vars

\* C20: after every step whose departure fetch succeeded (enter, startup
\* lock or tick) the board has one header line per destination the fetch
\* returned, the headers in strictly ascending byte order, and directly under
\* each header one line per departure of that destination, in the order the
\* fetch returned them, closed by an empty line.
C20_BoardOrder ==
    [][ FetchSucceeded
          => \E lines \in {Split(m'.info)} :
             \E deps \in {getDepartures(m.api_key, fetched'[1].abbr,
                                        fetched'[1].reply).deps} :
             \E heads \in {{ i \in 1..Len(lines) : EndsWith(lines[i], <<58>>) }} :
               /\ { HeaderName(lines[i]) : i \in heads } = DOMAIN deps
               /\ Cardinality(heads) = Cardinality(DOMAIN deps)
               /\ \A i, j \in heads :
                    i < j => LessStr(HeaderName(lines[i]), HeaderName(lines[j]))
               /\ \A i \in heads :
                    \E depList \in {deps[HeaderName(lines[i])]} :
                      /\ i + Len(depList) + 1 <= Len(lines)
                      /\ lines[i + Len(depList) + 1] = <<>>
                      /\ \A k \in 1..Len(depList) :
                           /\ StartsWith(lines[i + k], SP)
                           /\ Contains(lines[i + k], SP \o depList[k].Minutes \o SP)
                           /\ EndsWith(lines[i + k], PlatformSep \o depList[k].Platform)
      ]_vars

\* C20 (witness): enter was handled and its fetch returned destination B,
\* with two departures, before destination A; the board lists A first.
C20_OutOfOrderBoard ==
    /\ msg.type = "key"
    /\ msg.key = "enter"
    /\ fetched # <<>>
    /\ fetched[1].reply = DecodedReply(EtdBody1)
    /\ \E i, j \in 1..(Len(m.info) - 2) :
         /\ i < j
         /\ SubSeq(m.info, i, i + 2) = NL \o <<65>> \o <<58>>
         /\ SubSeq(m.info, j, j + 2) = NL \o <<66>> \o <<58>>

\* C21: after every step whose departure fetch succeeded, the line of each
\* departure is " Leaving | Platform p" when its minutes text is "Leaving",
\* three spaces and "m min | Platform p" when the text is a non-negative
\* integer below 10, and two spaces and "m min | Platform p" otherwise.
C21_LineLayout ==
    [][ FetchSucceeded
          => \E lines \in {Split(m'.info)} :
             \E deps \in {getDepartures(m.api_key, fetched'[1].abbr,
                                        fetched'[1].reply).deps} :
             \A i \in 1..Len(lines) :
               (EndsWith(lines[i], <<58>>) /\ HeaderName(lines[i]) \in DOMAIN deps)
                 => \E depList \in {deps[HeaderName(lines[i])]} :
                    \A k \in 1..Len(depList) :
                      \E dep \in {depList[k]} :
                        /\ i + k <= Len(lines)
                        /\ lines[i + k] =
                             IF dep.Minutes = Leaving
                             THEN SP \o Leaving \o PlatformSep \o dep.Platform
                             ELSE IF /\ dep.Minutes # <<>>
                                     /\ \A c \in 1..Len(dep.Minutes) : IsDigit(dep.Minutes[c])
                                     /\ DigitsValue(dep.Minutes, 0) < 10
                             THEN SP \o SP \o SP \o dep.Minutes \o MinPlatformSep \o dep.Platform
                             ELSE SP \o SP \o dep.Minutes \o MinPlatformSep \o dep.Platform
      ]_vars

\* C22: a StationsFetched event carrying an empty list, arriving while no
\* error is set, sets no error, leaves the cursor at 0 and gives a frame
\* without station rows.
C22_EmptyListResetsCursor ==
    [][ (msg'.type = "stations" /\ len(msg'.stations) = 0 /\ m.err = NoError)
          => /\ m'.err = NoError
             /\ m'.cursor = 0
             /\ len(m'.stations) = 0
             /\ ~Contains(View(m'), CommaParen) ]_vars

\* C23 (as stated): in the scenario the frame holds, in this order, the
\* line "Dublin:", a "Leaving" line and a "5 min" line.
C23_LeavingThenFive ==
    [][ ScenarioStep => InOrder(m', Dublin \o <<58>>, Leaving, FiveMin) ]_vars

\* C23: in the scenario the frame holds, in this order, the line "Dublin:",
\* the "5 min" line and the "Leaving" line (the order the fetch returned),
\* and not the "Leaving" line before the "5 min" line.
C23_FiveThenLeaving ==
    [][ ScenarioStep
          => /\ InOrder(m', Dublin \o <<58>>,
                        SP \o SP \o SP \o FiveMin \o PlatformSep \o <<50>>,
                        SP \o Leaving \o PlatformSep \o <<49>>)
             /\ ~InOrder(m', Dublin \o <<58>>, Leaving, FiveMin) ]_vars

\* C23 (witness): the scenario's enter has been handled and the board names
\* Civic Center and Dublin.
C23_DublinBoard ==
    /\ msg.type = "key"
    /\ msg.key = "enter"
    /\ m.stations = Slice(<<CivicCenter>>)
    /\ m.cursor = 0
    /\ m.err = NoError
    /\ fetched # <<>>
    /\ fetched[1].abbr = CivicCenter.Abbr
    /\ fetched[1].reply = DecodedReply(DublinBody)
    /\ StartsWith(m.info, CivicCenter.Name \o NL \o NL \o Dublin \o ColonNL)

\* C24: before the first call of Update the model has no stations, cursor
\* 0, an empty board, no error and a non-empty status message saying
\* "Loading", and it holds the credential and the startup arguments
\* initialModel was given.
C24_InitialModel ==
    msg = NoMsg
      => /\ len(m.stations) = 0
         /\ m.cursor = 0
         /\ m.info = <<>>
         /\ m.err = NoError
         /\ m.message # <<>>
         /\ Contains(m.message, <<76, 111, 97, 100, 105, 110, 103>>)
         /\ \A k \in ApiKeys, a \in ArgsSet :
              \E fresh \in {initialModel(k, a)} :
                /\ fresh.api_key = k
                /\ fresh.args = a
                /\ (m.api_key = k /\ m.args = a) => m = fresh

\* C24 (witness): the program was started with a startup argument and Update
\* has not been called yet.
C24_FreshWithArgs ==
    /\ msg = NoMsg
    /\ m.args # <<>>
    /\ m.api_key \in ApiKeys
    /\ m.message = LoadingMessage
    /\ m.stations = NilSlice

\* C25: after every step whose departure fetch succeeded the board is made
\* of the new response alone: its first line is the display name (with
\* " Departures" on a lock or tick), its headers are exactly the
\* destinations of the new response, it has exactly one line per departure
\* of the new response, and no destination that only the previous board held
\* appears in it.
C25_BoardReplaced ==
    [][ FetchSucceeded
          => \E lines \in {Split(m'.info)} : \E old \in {Split(m.info)} :
             \E deps \in {getDepartures(m.api_key, fetched'[1].abbr,
                                        fetched'[1].reply).deps} :
               /\ lines[1] = IF msg'.type = "key"
                             THEN m.stations.elems[m.cursor + 1].Name
                             ELSE IF m'.selectedName # <<>>
                             THEN m'.selectedName
                                  \o SubSeq(DeparturesSuffix, 1, Len(DeparturesSuffix) - 2)
                             ELSE fetched'[1].abbr
                                  \o SubSeq(DeparturesSuffix, 1, Len(DeparturesSuffix) - 2)
               /\ { HeaderName(lines[i]) : i \in HeaderLines(lines) } = DOMAIN deps
               /\ Cardinality(HeaderLines(lines)) = Cardinality(DOMAIN deps)
               /\ DepartureLineCount(lines) = DepartureCount(deps, DOMAIN deps)
               /\ Len(lines) = 3 + 2 * Cardinality(DOMAIN deps)
                               + DepartureCount(deps, DOMAIN deps)
               /\ \A i \in HeaderLines(old) :
                    HeaderName(old[i]) \notin DOMAIN deps
                      => ~Contains(m'.info, NL \o old[i] \o NL) ]_vars

\* C25 (witness): two enters in a row succeeded; the first board listed A
\* and B, the second response holds only C, and the board lists only C.
C25_StaleDestinationsGone ==
    /\ msg.type = "key"
    /\ msg.key = "enter"
    /\ fetchedBefore # <<>>
    /\ fetchedBefore[1].reply = DecodedReply(EtdBody1)
    /\ fetched # <<>>
    /\ fetched[1].reply = DecodedReply(EtdBody2)
    /\ Contains(m.info, NL \o <<67>> \o ColonNL)
    /\ ~Contains(m.info, NL \o <<65>> \o ColonNL)
    /\ ~Contains(m.info, NL \o <<66>> \o ColonNL)

\* C26: an enter key handled while the station list is empty calls
\* getDepartures zero times, returns no command and leaves the model and the
\* program's run state as they were.
C26_EnterWithoutStations ==
    [][ (Pressed({"enter"}) /\ len(m.stations) = 0)
          => /\ fetched' = <<>>
             /\ cmd' = <<>>
             /\ m' = m
             /\ status' = status
             /\ pendingFetch' = pendingFetch
             /\ timers' = timers ]_vars

\* C26 (witness): enter was handled in a locked session (picker hidden) that
\* shows a board, and nothing was fetched.
C26_EnterWhileTracking ==
    /\ msg.type = "key"
    /\ msg.key = "enter"
    /\ Locked(m)
    /\ m.info # <<>>
    /\ fetched = <<>>
    /\ cmd = <<>>

\* C27: a tick handled while locked fetches departures for the code of the
\* station the lock was established on (the station whose name is
\* remembered), and on success heads the board with that station's name.
C27_TickFetchesLockedCode ==
    [][ (Locked(m) /\ msg'.type = "tick")
          => \E i \in 1..Len(StationPool) :
               /\ StationPool[i].Name = m.selectedName
               /\ Len(fetched') = 1
               /\ fetched'[1].abbr = StationPool[i].Abbr
               /\ FetchSucceeded =>
                    StartsWith(m'.info, StationPool[i].Name \o DeparturesSuffix) ]_vars

====
